---- MODULE Spec2Model ----
(***************************************************************************)
(* A model of recommender/api/titles.py: the HTTP endpoints of the         *)
(* recommendation training pipeline (DownloadTitles, MapTitleInformation,  *)
(* GetTextJSONFiles, PrepareTrainData, CreateNTMEstimator).                 *)
(*                                                                         *)
(* Every endpoint is one action that models its whole post() handler.      *)
(* The Title table is a sequence of rows whose position is the primary key.*)
(* What a handler does outside the table (download attempts, local files,  *)
(* S3 objects, SageMaker endpoints) is kept in variables of its own, and   *)
(* `request` / `response` hold the request last served and its answer.     *)
(***************************************************************************)
EXTENDS Integers, Sequences, FiniteSets, TLC

VARIABLES
    titles,     \* the Title table: row i has primary key i
    request,    \* the inputs of the request served last
    response,   \* how that request ended
    attempts,   \* DownloadTitles: the keys handed to download_file, in order
    files,      \* PrepareTrainData: the files written under BOOK_PATH
    bucket,     \* the objects uploaded to S3, in upload order
    predictor,  \* CreateNTMEstimator: the fate of the predictor endpoint
    rerun       \* history: how the last PrepareTrainData run compares with
                \* the run before it

vars == <<titles, request, response, attempts, files, bucket, predictor, rerun>>

----------------------------------------------------------------------------
(* Bounds of the model.                                                    *)

MaxKeys == 3        \* longest list_keys of a request
MaxTitles == 3      \* identifiers are 1..MaxTitles
MaxMapKeys == 2     \* longest list_keys of a MapTitleInformation request
MaxSyncKeys == 2    \* the content service's sync_keys are 1..MaxSyncKeys
MaxRows == 5        \* most rows handed to _split_convert_upload on its own
MaxParts == 4       \* largest n_parts handed to _split_convert_upload on its own

(* Program constants.                                                      *)

VOCAB_SIZE == 2000
TrainParts == 8
ValParts == 1
HTTP_200_OK == 200
HTTP_400_BAD_REQUEST == 400

Ids == 1..MaxTitles

(* The S3 object keys a DownloadTitles request may name.                   *)
S3Keys == {"k1", "k2"}

(* Sequences over S of length at most n.                                   *)
SeqUpTo(S, n) == UNION {[1..k -> S] : k \in 0..n}

Range(s) == {s[i] : i \in DOMAIN s}

(* The sequence s itself, as an enumerated tuple (evaluated once).         *)
AsTuple(s) == s \o <<>>

(* How a request ends: the handler returns a Response with a status, or an *)
(* exception leaves post() (status 0 stands for "no Response was built").  *)
(* `error` tells whether anything was raised while the request was served, *)
(* caught by the handler or not.                                           *)
Returned(endpoint, status, error, body) ==
    [endpoint |-> endpoint, outcome |-> "returned", status |-> status,
     error |-> error, body |-> body]

Raised(endpoint) ==
    [endpoint |-> endpoint, outcome |-> "raised", status |-> 0,
     error |-> TRUE, body |-> [status |-> "none"]]

NoRequest == [endpoint |-> "none"]
NoResponse == [endpoint |-> "none", outcome |-> "none", status |-> 0,
               error |-> FALSE, body |-> [status |-> "none"]]
NoRun == [done |-> FALSE]
NoPredictor == [deployed |-> FALSE, deleted |-> FALSE, delete_calls |-> 0]
NoRerun == [second |-> FALSE, same_queryset |-> FALSE, same_new_index |-> FALSE,
            same_train |-> FALSE, same_val |-> FALSE, same_sizes |-> FALSE]

----------------------------------------------------------------------------
(* DownloadTitles.post                                                     *)

(* What service.download_file(key) does for one key: it returns, raises    *)
(* ValueError, or raises something else.                                   *)
DownloadOutcomes == {"ok", "ValueError", "Exception"}

(* The loop of lines 62-66 from position i on. st.attempts are the keys    *)
(* handed to download_file so far, st.errors the keys appended to errors;  *)
(* an exception other than ValueError ends the loop and the handler.       *)
RECURSIVE DownloadLoop(_, _, _, _)
DownloadLoopNoCatch(list_keys, outcomes, i, st) ==
    IF i > Len(list_keys) THEN st
    ELSE LET tried == [st EXCEPT !.attempts = Append(@, list_keys[i])] IN
         IF outcomes[i] = "ok"
         THEN DownloadLoop(list_keys, outcomes, i + 1, tried)
         ELSE [tried EXCEPT !.raised = TRUE]

DownloadLoop(list_keys, outcomes, i, st) ==
    IF i > Len(list_keys) THEN st
    ELSE LET tried == [st EXCEPT !.attempts = Append(@, list_keys[i])] IN
         CASE outcomes[i] = "ok" ->
                 DownloadLoop(list_keys, outcomes, i + 1, tried)
           [] outcomes[i] = "ValueError" ->
                 DownloadLoop(list_keys, outcomes, i + 1,
                              [tried EXCEPT !.errors = Append(@, list_keys[i])])
           [] OTHER -> [tried EXCEPT !.raised = TRUE]

DownloadTitles ==
    \E list_keys \in SeqUpTo(S3Keys, MaxKeys) :
    \E outcomes \in [1..Len(list_keys) -> DownloadOutcomes] :
        LET st == DownloadLoop(list_keys, outcomes, 1,
                               [attempts |-> <<>>, errors |-> <<>>, raised |-> FALSE])
        IN
        /\ request' = [endpoint |-> "DownloadTitles", list_keys |-> list_keys,
                       outcomes |-> outcomes]
        /\ attempts' = st.attempts
        /\ response' =
             IF st.raised THEN Raised("DownloadTitles")
             ELSE Returned("DownloadTitles", HTTP_200_OK, Len(st.errors) > 0,
                           [status |-> "OK", errors |-> Len(st.errors)])
        /\ UNCHANGED <<titles, files, bucket, predictor, rerun>>

InitDownload ==
    /\ titles = <<>>
    /\ request = NoRequest
    /\ response = NoResponse
    /\ attempts = <<>>
    /\ files = NoRun
    /\ bucket = <<>>
    /\ predictor = NoPredictor
    /\ rerun = NoRerun

NextDownload == DownloadTitles

SpecDownload == InitDownload /\ [][NextDownload]_vars

(* C9: DownloadTitles hands every key of list_keys to download_file once,  *)
(* in list order, whether or not earlier keys raised ValueError; when no   *)
(* download raised anything but ValueError the answer is HTTP 200 with     *)
(* status "OK" and "errors" the number of positions that raised ValueError.*)
(* In every case the keys attempted are a prefix of list_keys.             *)
C9_EveryKeyAttemptedOnce ==
    request.endpoint = "DownloadTitles" =>
        /\ Len(attempts) <= Len(request.list_keys)
        /\ attempts = SubSeq(request.list_keys, 1, Len(attempts))
        /\ ("Exception" \notin Range(request.outcomes) =>
               /\ attempts = request.list_keys
               /\ response.outcome = "returned"
               /\ response.status = HTTP_200_OK
               /\ response.body.status = "OK"
               /\ response.body.errors =
                    Cardinality({i \in DOMAIN request.outcomes :
                                    request.outcomes[i] = "ValueError"}))

(* A request whose first key raises ValueError, which names that key twice *)
(* (both raise) and whose last key downloads.                              *)
C9_Witness ==
    /\ request.endpoint = "DownloadTitles"
    /\ Len(request.list_keys) = 3
    /\ request.list_keys[1] = request.list_keys[2]
    /\ request.outcomes = <<"ValueError", "ValueError", "ok">>
    /\ Len(attempts) = 3
    /\ response.body.errors = 2

----------------------------------------------------------------------------
(* MapTitleInformation.post                                                *)

Themes == {"", "T1"}

(* What service.get_title(id=key) answers for one key of list_keys: None,  *)
(* or a title dict with its sync_key, its theme list (empty, or one theme) *)
(* and its publisher (a dict with a name, or None).                        *)
SyncKeys == 1..MaxSyncKeys

NoTitle == [found |-> FALSE]

ServiceTitles ==
    [found : {TRUE}, sync_key : SyncKeys, theme : {<<>>, <<"T1">>},
     publisher : {"P1"}, title_name : {"N1"}]
    \cup
    [found : {TRUE}, sync_key : SyncKeys, theme : {<<>>},
     publisher : {"None"}, title_name : {"N1"}]

ServiceAnswers == {NoTitle} \cup ServiceTitles

NoText == <<>>
NoFile == <<>>

Exists(table, identifier) ==
    \E i \in DOMAIN table : table[i].identifier = identifier

(* _create_title_from_service on the table: st.table is the table after    *)
(* the call, st.raised whether the call raised (publisher None has no      *)
(* ["name"]).                                                              *)
CreateTitleNoExistsCheck(st, title) ==
    IF title.publisher = "None" THEN [st EXCEPT !.raised = TRUE]
    ELSE [st EXCEPT !.table = Append(@,
            [identifier |-> title.sync_key,
             publisher |-> title.publisher,
             theme |-> IF Len(title.theme) > 0 THEN title.theme[1] ELSE "",
             name |-> title.title_name,
             complete_text |-> NoText,
             vector_file |-> NoFile])]

CreateTitleFromService(st, title) ==
    IF Exists(st.table, title.sync_key) THEN st
    ELSE IF title.publisher = "None" THEN [st EXCEPT !.raised = TRUE]
    ELSE [st EXCEPT !.table = Append(@,
            [identifier |-> title.sync_key,
             publisher |-> title.publisher,
             theme |-> IF Len(title.theme) > 0 THEN title.theme[1] ELSE "",
             name |-> title.title_name,
             complete_text |-> NoText,
             vector_file |-> NoFile])]

(* The loop of lines 84-87 over the service's answers, from position i.    *)
RECURSIVE MapLoop(_, _, _)
MapLoop(answers, i, st) ==
    IF i > Len(answers) \/ st.raised THEN st
    ELSE IF answers[i].found
         THEN MapLoop(answers, i + 1,
                      CreateTitleFromService([st EXCEPT !.asked = i], answers[i]))
         ELSE MapLoop(answers, i + 1, [st EXCEPT !.asked = i])

(* has_service true: answers[i] is the service's answer for list_keys[i].  *)
(* `returned` keeps the sync_keys the service answered with before the     *)
(* handler ended.                                                          *)
MapTitleInformationService ==
    \E answers \in SeqUpTo(ServiceAnswers, MaxMapKeys) :
        LET st == MapLoop(answers, 1,
                          [table |-> titles, raised |-> FALSE, asked |-> 0])
        IN
        /\ request' = [endpoint |-> "MapTitleInformation", has_service |-> TRUE,
                       n_keys |-> Len(answers),
                       returned |-> {answers[i].sync_key :
                                       i \in {j \in 1..st.asked : answers[j].found}}]
        /\ titles' = st.table
        /\ response' = IF st.raised THEN Raised("MapTitleInformation")
                       ELSE Returned("MapTitleInformation", HTTP_200_OK, FALSE,
                                     [status |-> "OK"])
        /\ UNCHANGED <<attempts, files, bucket, predictor, rerun>>

(* has_service false: _create_title raises NotImplementedError for the     *)
(* first item of body["titles"].                                           *)
MapTitleInformationBulk ==
    \E n_items \in 0..1 :
        /\ request' = [endpoint |-> "MapTitleInformation", has_service |-> FALSE,
                       n_keys |-> n_items, returned |-> {}]
        /\ response' = IF n_items > 0 THEN Raised("MapTitleInformation")
                       ELSE Returned("MapTitleInformation", HTTP_200_OK, FALSE,
                                     [status |-> "OK"])
        /\ UNCHANGED <<titles, attempts, files, bucket, predictor, rerun>>

InitMap ==
    /\ titles = <<>>
    /\ request = NoRequest
    /\ response = NoResponse
    /\ attempts = <<>>
    /\ files = NoRun
    /\ bucket = <<>>
    /\ predictor = NoPredictor
    /\ rerun = NoRerun

NextMap == MapTitleInformationService \/ MapTitleInformationBulk

SpecMap == InitMap /\ [][NextMap]_vars

UniqueIdentifiers(table) ==
    \A i, j \in DOMAIN table :
        table[i].identifier = table[j].identifier => i = j

(* C7: under MapTitleInformation the table never holds two Titles with one *)
(* identifier; a request leaves every existing Title as it was, creates    *)
(* nothing for an identifier that already exists, and creates Titles only  *)
(* for sync_keys the service answered with (none for a key it answered     *)
(* None for).                                                              *)
C7_IdentifiersStayUnique ==
    [][ /\ UniqueIdentifiers(titles) => UniqueIdentifiers(titles')
        /\ Len(titles') >= Len(titles)
        /\ \A i \in DOMAIN titles : titles'[i] = titles[i]
        /\ \A i \in DOMAIN titles' \ DOMAIN titles :
              /\ ~Exists(titles, titles'[i].identifier)
              /\ request'.has_service
              /\ titles'[i].identifier \in request'.returned
      ]_vars

(* A table of two Titles after a request whose keys repeated an identifier *)
(* already in the table and for one of which the service knew no title.    *)
C7_Witness ==
    /\ request.endpoint = "MapTitleInformation"
    /\ request.has_service
    /\ request.n_keys = 2
    /\ Cardinality(request.returned) = 1
    /\ Len(titles) = 2
    /\ \E i \in DOMAIN titles : titles[i].identifier \in request.returned
    /\ response.status = HTTP_200_OK

----------------------------------------------------------------------------
(* The Title tables the later endpoints start from.                        *)

(* Texts are sequences of words; "de" is a stop word.                      *)
DocA == <<"a", "b">>
DocB == <<"b", "c", "b">>
DocC == <<"a", "de", "c">>
Docs == {NoText, DocA, DocB, DocC}

(* A table as MapTitleInformation leaves it (identifiers 1..n, every theme *)
(* "T1" but that of Title u) with the texts GetTextJSONFiles attached.     *)
Table(n, u, texts) ==
    [i \in 1..n |->
        [identifier |-> i,
         publisher |-> "P1",
         theme |-> IF i = u THEN "" ELSE "T1",
         name |-> "N1",
         complete_text |-> texts[i],
         vector_file |-> NoFile]]

----------------------------------------------------------------------------
(* GetTextJSONFiles.post                                                   *)

BOOK_PATH == "books"
FilePaths == {BOOK_PATH, "other"}

(* map_service.process_json_file(folder): the text merged from the JSON    *)
(* files of the folder, as the file system fs holds them.                  *)
ProcessJsonFile(fs, folder) == fs[folder]

(* Lines 118-121: the primary keys of the Titles the request works on.     *)
GetTextQuerysetAll(table, process_all) == DOMAIN table

GetTextQueryset(table, process_all) ==
    IF process_all THEN DOMAIN table
    ELSE {i \in DOMAIN table : table[i].complete_text = NoText}

(* Lines 126-130 for every Title of the queryset.                          *)
AttachText(table, queryset, file_path, fs) ==
    [i \in DOMAIN table |->
        IF i \in queryset
        THEN [table[i] EXCEPT !.complete_text =
                 ProcessJsonFile(fs, <<file_path, table[i].identifier>>)]
        ELSE table[i]]

GetTextJSONFiles ==
    \E file_path \in FilePaths, process_all \in BOOLEAN :
    \E fs \in [{file_path} \X {titles[i].identifier : i \in DOMAIN titles}
                 -> {NoText, DocA, DocB}] :
        /\ request' = [endpoint |-> "GetTextJSONFiles", file_path |-> file_path,
                       process_all |-> process_all, fs |-> fs]
        /\ titles' = AttachText(titles, GetTextQueryset(titles, process_all),
                                file_path, fs)
        /\ response' = Returned("GetTextJSONFiles", HTTP_200_OK, FALSE,
                                [status |-> "OK"])
        /\ UNCHANGED <<attempts, files, bucket, predictor, rerun>>

InitText ==
    /\ \E n \in 0..MaxTitles :
       \E texts \in [1..n -> {NoText, DocA, DocB}] :
           titles = Table(n, 1, texts)
    /\ request = NoRequest
    /\ response = NoResponse
    /\ attempts = <<>>
    /\ files = NoRun
    /\ bucket = <<>>
    /\ predictor = NoPredictor
    /\ rerun = NoRerun

NextText == GetTextJSONFiles

SpecText == InitText /\ [][NextText]_vars

(* C8: a GetTextJSONFiles request creates and deletes no Title and changes *)
(* no field but complete_text; without process_all it overwrites exactly   *)
(* the Titles whose complete_text was empty, with the text of folder       *)
(* file_path/<identifier>, and with process_all it overwrites every Title. *)
C8_TextAttachedWhereAsked ==
    [][ request'.endpoint = "GetTextJSONFiles" =>
          /\ DOMAIN titles' = DOMAIN titles
          /\ \A i \in DOMAIN titles :
                /\ [titles'[i] EXCEPT !.complete_text = NoText]
                     = [titles[i] EXCEPT !.complete_text = NoText]
                /\ titles'[i].complete_text =
                     IF request'.process_all \/ titles[i].complete_text = NoText
                     THEN request'.fs[<<request'.file_path, titles[i].identifier>>]
                     ELSE titles[i].complete_text
      ]_vars

(* After a request without process_all, one Title holds the text its       *)
(* folder does not (it had a text and kept it) and another the text of its *)
(* folder.                                                                 *)
C8_Witness ==
    /\ request.endpoint = "GetTextJSONFiles"
    /\ ~request.process_all
    /\ Len(titles) >= 2
    /\ \E i, j \in DOMAIN titles :
          /\ titles[i].complete_text # NoText
          /\ titles[i].complete_text
               # request.fs[<<request.file_path, titles[i].identifier>>]
          /\ request.fs[<<request.file_path, titles[i].identifier>>] # NoText
          /\ titles[j].complete_text
               = request.fs[<<request.file_path, titles[j].identifier>>]
          /\ titles[j].complete_text # NoText
          /\ titles[j].complete_text # titles[i].complete_text

----------------------------------------------------------------------------
(* Formatting: np.savetxt(..., fmt='%s') writes one str(value) per line.   *)
(* A line is the sequence of the decimal digits of the number.             *)

RECURSIVE FormatInt(_)
FormatInt(n) ==
    IF n < 10 THEN <<n>> ELSE FormatInt(n \div 10) \o <<n % 10>>

RECURSIVE ParseInt(_)
ParseInt(digits) ==
    IF Len(digits) = 0 THEN 0
    ELSE 10 * ParseInt(SubSeq(digits, 1, Len(digits) - 1)) + digits[Len(digits)]

Savetxt(array) == AsTuple([i \in DOMAIN array |-> FormatInt(array[i])])

Loadtxt(lines) == AsTuple([i \in DOMAIN lines |-> ParseInt(lines[i])])

(* numpy's conversion of a count to float32: exact up to 2^24, and rounded *)
(* to the nearest even multiple of the spacing 2 up to 2^25.               *)
Float32(c) ==
    IF c <= 16777216 THEN c
    ELSE IF c % 2 = 0 THEN c
    ELSE IF (c + 1) % 4 = 0 THEN c + 1 ELSE c - 1

----------------------------------------------------------------------------
(* PrepareTrainData: the vectorizer (lines 144-159).                       *)

StopWords == {"de"}

(* The words of the texts in alphabetical order, the order of the features.*)
WordOrder == <<"a", "b", "c", "de">>

Tokens(text) == SelectSeq(text, LAMBDA w : w \notin StopWords)

TermCount(w, text) ==
    Cardinality({i \in DOMAIN Tokens(text) : Tokens(text)[i] = w})

DocFreq(w, texts) ==
    Cardinality({d \in DOMAIN texts : TermCount(w, texts[d]) > 0})

RECURSIVE TotalCount(_, _, _)
TotalCount(w, texts, d) ==
    IF d > Len(texts) THEN 0
    ELSE TermCount(w, texts[d]) + TotalCount(w, texts, d + 1)

(* max_features: the VOCAB_SIZE terms of the highest total count.          *)
LimitFeatures(kept, texts) ==
    IF Cardinality(kept) <= VOCAB_SIZE THEN kept
    ELSE CHOOSE top \in SUBSET kept :
            /\ Cardinality(top) = VOCAB_SIZE
            /\ \A w \in top, v \in kept \ top :
                  TotalCount(w, texts, 1) >= TotalCount(v, texts, 1)

(* vectorizer.fit_transform(titles) with max_df=0.95 and min_df=2: it      *)
(* raises ValueError on an empty vocabulary, when 0.95*N < 2 and when no   *)
(* term is left; otherwise row d counts the kept terms in document d.      *)
(* docs[d] is the primary key of the Title whose text is texts[d]; a row   *)
(* carries it as `doc`, which the code does not store: it names the Title  *)
(* a row was computed from.                                                *)
FitTransform(docs, texts) ==
    LET n_doc == Len(texts)
        seen == {w \in Range(WordOrder) : DocFreq(w, texts) > 0}
        pruned == {w \in seen : /\ DocFreq(w, texts) >= 2
                                 /\ 100 * DocFreq(w, texts) <= 95 * n_doc}
    IN
    CHOOSE fit \in
        {IF seen = {} \/ 95 * n_doc < 2 * 100 \/ kept = {}
         THEN [ok |-> FALSE, vocab_list |-> <<>>, vectors |-> <<>>]
         ELSE CHOOSE done \in
                {[ok |-> TRUE,
                  vocab_list |-> vocab_list,
                  vectors |-> AsTuple([d \in 1..n_doc |->
                      [doc |-> docs[d],
                       counts |-> AsTuple([j \in DOMAIN vocab_list |->
                                     TermCount(vocab_list[j], texts[d])])]])]
                 : vocab_list \in
                     {SelectSeq(WordOrder,
                                LAMBDA w : w \in LimitFeatures(kept, texts))}}
                : TRUE
         : kept \in {pruned}}
        : TRUE

----------------------------------------------------------------------------
(* PrepareTrainData._get_title_queryset and _get_titles_text               *)

(* The members of a set of primary keys in descending order: order_by(-pk) *)
RECURSIVE Descending(_)
Descending(S) ==
    IF S = {} THEN <<>>
    ELSE LET m == CHOOSE x \in S : \A y \in S : y <= x
         IN <<m>> \o Descending(S \ {m})

Truthy(theme_filter) == theme_filter \notin {"None", ""}

(* list_keys is the set of the keys the request lists.                     *)
GetTitleQueryset(table, book_limit, list_keys, theme_filter) ==
    LET with_text == {i \in DOMAIN table : table[i].complete_text # NoText}
        chosen ==
            IF list_keys # {}
            THEN {i \in with_text : table[i].identifier \in list_keys}
            ELSE IF Truthy(theme_filter)
            THEN {i \in with_text : table[i].theme = theme_filter}
            ELSE with_text
        ordered == Descending(chosen)
    IN
    IF book_limit > 0 /\ book_limit < Len(ordered)
    THEN SubSeq(ordered, 1, book_limit)
    ELSE ordered

(* The Titles of the queryset whose text is not empty, in its order.       *)
TitlesWithText(table, queryset) ==
    SelectSeq(queryset, LAMBDA i : table[i].complete_text # NoText)

GetTitlesText(table, queryset) ==
    LET docs == TitlesWithText(table, queryset)
    IN AsTuple([d \in DOMAIN docs |-> table[docs[d]].complete_text])

----------------------------------------------------------------------------
(* PrepareTrainData._split_convert_upload                                  *)

(* One row as write_spmatrix_to_sparse_tensor records it: the indices of   *)
(* its non-zero columns, their values and the width of the row.            *)
SparseRecord(row) ==
    LET nz == SelectSeq([j \in DOMAIN row.counts |-> j],
                        LAMBDA j : row.counts[j] # 0)
    IN [doc |-> row.doc,
        keys |-> AsTuple([k \in DOMAIN nz |-> nz[k] - 1]),
        values |-> AsTuple([k \in DOMAIN nz |-> row.counts[nz[k]]]),
        shape |-> Len(row.counts)]

WriteSpmatrixToSparseTensor(rows) ==
    AsTuple([r \in DOMAIN rows |-> SparseRecord(rows[r])])

(* fname_template.format(i) for a template head + "{}" + tail.             *)
FormatName(template, i) == <<template.head, FormatInt(i), template.tail>>

(* The rows sparray[start:end] of part i (lines 283-286).                  *)
PartRowsNoRemainder(sparray, n_parts, i) ==
    LET chunk_size == Len(sparray) \div n_parts
    IN SubSeq(sparray, i * chunk_size + 1, (i + 1) * chunk_size)

PartRows(sparray, n_parts, i) ==
    LET chunk_size == Len(sparray) \div n_parts
        start == i * chunk_size
        end == IF i + 1 = n_parts THEN Len(sparray) ELSE (i + 1) * chunk_size
    IN SubSeq(sparray, start + 1, end)

(* The loop of lines 281-296 from part i on: the objects uploaded, in      *)
(* upload order.                                                           *)
RECURSIVE UploadLoop(_, _, _, _, _)
UploadLoop(sparray, prefix, fname_template, n_parts, i) ==
    IF i >= n_parts THEN <<>>
    ELSE <<[key |-> <<prefix, FormatName(fname_template, i)>>,
            records |-> WriteSpmatrixToSparseTensor(PartRows(sparray, n_parts, i))]>>
         \o UploadLoop(sparray, prefix, fname_template, n_parts, i + 1)

SplitConvertUpload(sparray, prefix, fname_template, n_parts) ==
    UploadLoop(sparray, prefix, fname_template, n_parts, 0)

----------------------------------------------------------------------------
(* PrepareTrainData.post                                                   *)

PREFIX == "recommender"
TrainTemplate == [head |-> "train_part", tail |-> ".pbr"]
ValTemplate == [head |-> "val_part", tail |-> ".pbr"]

(* np.arange(n) and the values np.random.permutation may return for it.    *)
Arange(n) == AsTuple([i \in 1..n |-> i - 1])

IndexPermutations(n) ==
    {p \in [1..n -> 0..(n - 1)] : \A i, j \in 1..n : p[i] = p[j] => i = j}

(* vectors[new_index] (line 171).                                          *)
TakeRowsInOrder(vectors, new_index) == vectors

TakeRows(vectors, new_index) ==
    AsTuple([i \in DOMAIN new_index |-> vectors[new_index[i] + 1]])

(* The lines written to new_index.csv (line 168).                          *)
NewIndexCsvOfIndex(index, new_index) == Savetxt(index)

NewIndexCsv(index, new_index) == Savetxt(new_index)

(* _map_vectors_titles: the item_counter-th Title of the queryset gets row *)
(* item_counter of the matrix it is handed, written with np.savetxt.       *)
MapVectorsTitles(table, vectors, queryset) ==
    [i \in DOMAIN table |->
        IF \E k \in DOMAIN queryset : queryset[k] = i
        THEN LET k == CHOOSE k \in DOMAIN queryset : queryset[k] = i
             IN [table[i] EXCEPT !.vector_file = Savetxt(vectors[k].counts)]
        ELSE table[i]]

(* sparse.csr_matrix(vectors, dtype=np.float32) (line 183).                *)
CsrFloat32(vectors) ==
    AsTuple([i \in DOMAIN vectors |->
        [vectors[i] EXCEPT !.counts = AsTuple([j \in DOMAIN @ |-> Float32(@[j])])]])

(* int(0.8 * n): the product is a float that is never below 4n/5, and its  *)
(* truncation is the floor of 8n/10.                                       *)
NTrainCeil(n) == (8 * n + 9) \div 10

NTrain(n) == (8 * n) \div 10

(* vectors[:n_train, :] and vectors[n_train:, :] (lines 190-191).          *)
TrainRows(vectors, n_train) == SubSeq(vectors, 1, n_train)

ValRows(vectors, n_train) == SubSeq(vectors, n_train + 1, Len(vectors))

(* The Titles the rows of a matrix were computed from.                     *)
DocsOf(vectors) == {vectors[i].doc : i \in DOMAIN vectors}

PrepareTrainData ==
    \E book_limit \in 0..MaxTitles, list_keys \in SUBSET Ids,
       theme_filter \in {"None", "T1"} :
    \E queryset \in {GetTitleQueryset(titles, book_limit, list_keys, theme_filter)} :
    \E fit \in {FitTransform(TitlesWithText(titles, queryset),
                             GetTitlesText(titles, queryset))} :
        /\ request' = [endpoint |-> "PrepareTrainData"]
        /\ \/ /\ ~fit.ok
              /\ response' = Raised("PrepareTrainData")
              /\ UNCHANGED <<titles, files, bucket, rerun>>
           \/ /\ fit.ok
              /\ \E index \in {Arange(Len(fit.vectors))} :
                 \E new_index \in IndexPermutations(Len(index)) :
                 \E vectors \in {TakeRows(fit.vectors, new_index)} :
                 \E csr \in {CsrFloat32(vectors)} :
                 \E n_train \in {NTrain(Len(csr))} :
                 \E train_vectors \in {TrainRows(csr, n_train)} :
                 \E val_vectors \in {ValRows(csr, n_train)} :
                    /\ files' = [done |-> TRUE,
                                 queryset |-> queryset,
                                 vocab_list_csv |-> fit.vocab_list,
                                 index_csv |-> Savetxt(index),
                                 new_index_csv |-> NewIndexCsv(index, new_index),
                                 vectors_joblib |-> vectors,
                                 train_vectors |-> train_vectors,
                                 val_vectors |-> val_vectors]
                    /\ titles' = MapVectorsTitles(titles, vectors, queryset)
                    /\ bucket' =
                         SplitConvertUpload(train_vectors, <<PREFIX, "train">>,
                                            TrainTemplate, TrainParts)
                         \o SplitConvertUpload(val_vectors, <<PREFIX, "val">>,
                                               ValTemplate, ValParts)
                    /\ response' = Returned("PrepareTrainData", HTTP_200_OK, FALSE,
                                            [status |-> "Ok"])
                    /\ rerun' =
                         IF ~files.done THEN NoRerun
                         ELSE IF queryset # files.queryset
                         THEN [NoRerun EXCEPT !.second = TRUE]
                         ELSE [second |-> TRUE,
                               same_queryset |-> queryset = files.queryset,
                               same_new_index |->
                                   NewIndexCsv(index, new_index) = files.new_index_csv,
                               same_train |->
                                   DocsOf(train_vectors) = DocsOf(files.train_vectors),
                               same_val |->
                                   DocsOf(val_vectors) = DocsOf(files.val_vectors),
                               same_sizes |->
                                   /\ Len(train_vectors) = Len(files.train_vectors)
                                   /\ Len(val_vectors) = Len(files.val_vectors)]
        /\ UNCHANGED <<attempts, predictor>>

(* The tables PrepareTrainData starts from: Title i has no text yet, or   *)
(* the text GetTextJSONFiles found in its folder.                          *)
FolderTexts == <<DocA, DocB, DocC>>

InitPrepare ==
    /\ \E n \in 0..MaxTitles, u \in 0..1 :
       \E texts \in [1..n -> Docs] :
           /\ \A i \in 1..n :
                 texts[i] \in {NoText, FolderTexts[((i - 1) % Len(FolderTexts)) + 1]}
           /\ titles = Table(n, u, texts)
    /\ request = NoRequest
    /\ response = NoResponse
    /\ attempts = <<>>
    /\ files = NoRun
    /\ bucket = <<>>
    /\ predictor = NoPredictor
    /\ rerun = NoRerun

NextPrepare == PrepareTrainData

SpecPrepare == InitPrepare /\ [][NextPrepare]_vars

(* The rows the vectorizer computes for the Titles of the last run, in the *)
(* order of its queryset (before the shuffle).                             *)
OriginalRows ==
    FitTransform(TitlesWithText(titles, files.queryset),
                 GetTitlesText(titles, files.queryset)).vectors

(* The dense row a sparse record stands for.                               *)
Dense(record) ==
    [doc |-> record.doc,
     counts |-> [j \in 1..record.shape |->
                   IF \E k \in DOMAIN record.keys : record.keys[k] = j - 1
                   THEN record.values[CHOOSE k \in DOMAIN record.keys :
                                         record.keys[k] = j - 1]
                   ELSE 0]]

(* The rows of the objects of an upload log, in upload order.              *)
RECURSIVE UploadedRows(_)
UploadedRows(log) ==
    IF Len(log) = 0 THEN <<>>
    ELSE [r \in DOMAIN log[1].records |-> Dense(log[1].records[r])]
         \o UploadedRows(Tail(log))

(* C2 as claimed: after PrepareTrainData the vector file of every selected *)
(* Title holds the row the vectorizer computed from that Title's own text. *)
C2_VectorFileOfOwnText ==
    files.done =>
        \A k \in DOMAIN files.queryset :
            titles[files.queryset[k]].vector_file = Savetxt(OriginalRows[k].counts)

(* C3 as claimed: two PrepareTrainData runs on the same Titles put the     *)
(* same documents in the training set and in the validation set.           *)
C3_SplitDeterministic ==
    (rerun.second /\ rerun.same_queryset) => (rerun.same_train /\ rerun.same_val)

(* C3 amended: two PrepareTrainData runs on the same Titles whose          *)
(* new_index.csv files are equal put the same documents in the training    *)
(* set and in the validation set; whatever the permutations drawn, the two *)
(* sets have the same sizes in both runs.                                  *)
C3_SplitDeterministicGivenNewIndex ==
    (rerun.second /\ rerun.same_queryset) =>
        /\ rerun.same_sizes
        /\ rerun.same_new_index => (rerun.same_train /\ rerun.same_val)

(* A second run on the same Titles that wrote the same new_index.csv, a    *)
(* permutation that moves documents.                                       *)
C3_Witness ==
    /\ rerun.second /\ rerun.same_queryset /\ rerun.same_new_index
    /\ rerun.same_train /\ rerun.same_val
    /\ Loadtxt(files.new_index_csv) # Loadtxt(files.index_csv)
    /\ Len(files.queryset) = MaxTitles

(* C4: index.csv holds 0..N-1 in order; new_index.csv holds a permutation  *)
(* of 0..N-1, the one applied: row i of vectors.joblib, of the matrix that *)
(* is split, and of the rows uploaded, is the vectorizer's row             *)
(* new_index[i] of the unshuffled documents.                               *)
C4_NewIndexIsThePermutationApplied ==
    files.done =>
        LET n == Len(files.queryset)
            new_index == Loadtxt(files.new_index_csv)
            split == files.train_vectors \o files.val_vectors
            uploaded == UploadedRows(bucket)
        IN
        /\ Loadtxt(files.index_csv) = [i \in 1..n |-> i - 1]
        /\ Len(new_index) = n
        /\ Range(new_index) = 0..(n - 1)
        /\ Len(files.vectors_joblib) = n /\ Len(split) = n /\ Len(uploaded) = n
        /\ \A i \in 1..n :
              /\ files.vectors_joblib[i] = OriginalRows[new_index[i] + 1]
              /\ split[i] = OriginalRows[new_index[i] + 1]
              /\ uploaded[i] = OriginalRows[new_index[i] + 1]

(* A run whose permutation is not the identity, on documents whose rows    *)
(* all differ.                                                             *)
C4_Witness ==
    /\ files.done
    /\ Len(files.queryset) = MaxTitles
    /\ Loadtxt(files.new_index_csv) # Loadtxt(files.index_csv)
    /\ \A i, j \in DOMAIN files.vectors_joblib :
          files.vectors_joblib[i].counts = files.vectors_joblib[j].counts => i = j

MaxSplitRows == 20

(* C6: the training set is the first floor(0.8*N) rows of the shuffled     *)
(* matrix and the validation set the other N - floor(0.8*N) rows; no       *)
(* document is in both, every document is in one, and the validation set   *)
(* is not empty (for any N >= 1 the split leaves it at least one row).     *)
C6_TrainValidationPartition ==
    /\ \A n \in 1..MaxSplitRows :
          /\ NTrain(n) = (4 * n) \div 5
          /\ Len(ValRows([i \in 1..n |-> i], NTrain(n))) = n - (4 * n) \div 5
          /\ Len(ValRows([i \in 1..n |-> i], NTrain(n))) >= 1
    /\ files.done =>
          LET n == Len(files.vectors_joblib)
              floor == (4 * n) \div 5
          IN
          /\ files.train_vectors = SubSeq(files.vectors_joblib, 1, floor)
          /\ files.val_vectors = SubSeq(files.vectors_joblib, floor + 1, n)
          /\ Len(files.train_vectors) = floor
          /\ Len(files.val_vectors) = n - floor
          /\ Len(files.val_vectors) >= 1
          /\ DocsOf(files.train_vectors) \cap DocsOf(files.val_vectors) = {}
          /\ DocsOf(files.train_vectors) \cup DocsOf(files.val_vectors)
               = Range(files.queryset)
          /\ Cardinality(DocsOf(files.train_vectors)) = Len(files.train_vectors)
          /\ Cardinality(DocsOf(files.val_vectors)) = Len(files.val_vectors)

(* A run on three documents: two rows to train on, one to validate on.     *)
C6_Witness ==
    /\ files.done
    /\ Len(files.queryset) = 3
    /\ Len(files.train_vectors) = 2
    /\ Len(files.val_vectors) = 1
    /\ response.status = HTTP_200_OK

----------------------------------------------------------------------------
(* _split_convert_upload on its own: any matrix of up to MaxRows rows, cut *)
(* in any number of parts up to MaxParts.                                  *)

RowValues == {<<0, 1>>, <<2, 0>>}

SplitConvertUploadCall ==
    /\ request.endpoint = "_split_convert_upload"
    /\ response.endpoint = "none"
    /\ bucket' = SplitConvertUpload(request.sparray, request.prefix,
                                    request.fname_template, request.n_parts)
    /\ response' = Returned("_split_convert_upload", 0, FALSE, [status |-> "none"])
    /\ UNCHANGED <<titles, request, attempts, files, predictor, rerun>>

InitSplit ==
    /\ \E n \in 0..MaxRows, n_parts \in 1..MaxParts :
       \E counts \in [1..n -> RowValues] :
           request = [endpoint |-> "_split_convert_upload",
                      sparray |-> [i \in 1..n |-> [doc |-> i, counts |-> counts[i]]],
                      prefix |-> <<PREFIX, "train">>,
                      fname_template |-> TrainTemplate,
                      n_parts |-> n_parts]
    /\ titles = <<>>
    /\ response = NoResponse
    /\ attempts = <<>>
    /\ files = NoRun
    /\ bucket = <<>>
    /\ predictor = NoPredictor
    /\ rerun = NoRerun

NextSplit == SplitConvertUploadCall

SpecSplit == InitSplit /\ [][NextSplit]_vars

(* C5: _split_convert_upload uploads n_parts objects, named by the template*)
(* with 0 .. n_parts-1 in increasing order under the prefix; part i holds  *)
(* the rows [i*floor(N/n_parts), (i+1)*floor(N/n_parts)) and the last part *)
(* runs to row N; the parts are disjoint and, put end to end, are the      *)
(* input: every row is uploaded once.                                      *)
C5_SplitPartitionsItsInput ==
    response.endpoint = "_split_convert_upload" =>
        LET sparray == request.sparray
            n == Len(sparray)
            n_parts == request.n_parts
            chunk == n \div n_parts
            part(i) == [r \in DOMAIN bucket[i + 1].records |->
                          Dense(bucket[i + 1].records[r])]
        IN
        /\ Len(bucket) = n_parts
        /\ \A i \in 0..(n_parts - 1) :
              /\ bucket[i + 1].key[1] = request.prefix
              /\ bucket[i + 1].key[2][1] = request.fname_template.head
              /\ ParseInt(bucket[i + 1].key[2][2]) = i
              /\ bucket[i + 1].key[2][3] = request.fname_template.tail
              /\ part(i) = SubSeq(sparray, i * chunk + 1,
                                  IF i = n_parts - 1 THEN n ELSE (i + 1) * chunk)
        /\ \A i, j \in 0..(n_parts - 1) :
              i # j => DocsOf(part(i)) \cap DocsOf(part(j)) = {}
        /\ UploadedRows(bucket) = sparray

(* Five rows cut in three parts: one row, one row, and the last three.     *)
C5_Witness ==
    /\ response.endpoint = "_split_convert_upload"
    /\ Len(request.sparray) = 5
    /\ request.n_parts = 3
    /\ Len(bucket) = 3
    /\ Len(bucket[1].records) = 1
    /\ Len(bucket[3].records) = 3

----------------------------------------------------------------------------
(* CreateNTMEstimator.post                                                 *)

(* The keys of the body the success response reads besides "paths".        *)
ResponseKeys == {"vectors_path", "vocab_list", "index", "new_index"}

(* The SageMaker call of the try block that raises, if one does: creating  *)
(* the session and the estimator, fit, deploy, or reading                  *)
(* ntm_predictor.__dict__["endpoint"].                                     *)
FailurePoints == {"none", "session", "fit", "deploy", "endpoint"}

(* Lines 309-331: whether the block raised, whether ntm_predictor was      *)
(* bound by then (the endpoint deployed), and whether the exception has    *)
(* args. body["paths"] is read after the session is made; a missing key    *)
(* raises KeyError, which has args, as does the KeyError of "endpoint".    *)
TryBlock(fail_at, has_paths, has_args) ==
    CASE fail_at = "session" ->
            [raised |-> TRUE, deployed |-> FALSE, has_args |-> has_args]
      [] ~has_paths ->
            [raised |-> TRUE, deployed |-> FALSE, has_args |-> TRUE]
      [] fail_at \in {"fit", "deploy"} ->
            [raised |-> TRUE, deployed |-> FALSE, has_args |-> has_args]
      [] fail_at = "endpoint" ->
            [raised |-> TRUE, deployed |-> TRUE, has_args |-> TRUE]
      [] OTHER ->
            [raised |-> FALSE, deployed |-> TRUE, has_args |-> FALSE]

(* Lines 332-339: str(e.args[0]) raises IndexError without args; then      *)
(* ntm_predictor.delete_endpoint() raises UnboundLocalError when deploy    *)
(* never returned, and otherwise deletes the endpoint or raises.           *)
ExceptHandler(try, delete_ok) ==
    IF ~try.has_args \/ ~try.deployed
    THEN [response |-> Raised("CreateNTMEstimator"),
          predictor |-> [deployed |-> try.deployed, deleted |-> FALSE,
                         delete_calls |-> 0]]
    ELSE IF delete_ok
    THEN [response |-> Returned("CreateNTMEstimator", HTTP_400_BAD_REQUEST, TRUE,
                                [status |-> "ERROR"]),
          predictor |-> [deployed |-> TRUE, deleted |-> TRUE, delete_calls |-> 1]]
    ELSE [response |-> Raised("CreateNTMEstimator"),
          predictor |-> [deployed |-> TRUE, deleted |-> FALSE, delete_calls |-> 1]]

(* Lines 341-353: the success body reads body["vectors_path"] and the      *)
(* other keys outside the try block.                                       *)
SuccessResponse(present) ==
    IF ResponseKeys \subseteq present
    THEN Returned("CreateNTMEstimator", HTTP_200_OK, FALSE, [status |-> "Ok"])
    ELSE Raised("CreateNTMEstimator")

CreateNTMEstimator ==
    \E pre_ok \in BOOLEAN, has_paths \in BOOLEAN, present \in SUBSET ResponseKeys,
       fail_at \in FailurePoints, has_args \in BOOLEAN, delete_ok \in BOOLEAN :
        LET try == TryBlock(fail_at, has_paths, has_args)
            handled == ExceptHandler(try, delete_ok)
        IN
        /\ request' = [endpoint |-> "CreateNTMEstimator", pre_ok |-> pre_ok,
                       has_paths |-> has_paths, present |-> present,
                       fail_at |-> fail_at, has_args |-> has_args,
                       delete_ok |-> delete_ok]
        /\ IF ~pre_ok
           THEN /\ response' = Raised("CreateNTMEstimator")
                /\ predictor' = NoPredictor
           ELSE IF try.raised
           THEN /\ response' = handled.response
                /\ predictor' = handled.predictor
           ELSE /\ response' = SuccessResponse(present)
                /\ predictor' = [deployed |-> TRUE, deleted |-> FALSE,
                                 delete_calls |-> 0]
        /\ UNCHANGED <<titles, attempts, files, bucket, rerun>>

InitErrors ==
    /\ titles = <<>>
    /\ request = NoRequest
    /\ response = NoResponse
    /\ attempts = <<>>
    /\ files = NoRun
    /\ bucket = <<>>
    /\ predictor = NoPredictor
    /\ rerun = NoRerun

NextErrors ==
    \/ CreateNTMEstimator
    \/ MapTitleInformationBulk

SpecErrors == InitErrors /\ [][NextErrors]_vars

(* C1 as claimed: whatever is raised while a request is served, the        *)
(* endpoint answers with HTTP 400: no exception leaves the handler, and no *)
(* request that failed is answered with 200.                               *)
C1_ErrorsAnswered400 ==
    response.endpoint # "none" =>
        /\ response.outcome = "returned"
        /\ response.error => response.status = HTTP_400_BAD_REQUEST

(* C10 as claimed: when CreateNTMEstimator does not answer with the        *)
(* success body, the endpoint it deployed (if any) is deleted by the time  *)
(* the handler ends, and delete_endpoint is only called on a predictor     *)
(* that was deployed.                                                      *)
C10_NoEndpointLeftBehind ==
    request.endpoint = "CreateNTMEstimator" =>
        /\ ~(response.outcome = "returned" /\ response.status = HTTP_200_OK) =>
              (predictor.deployed => predictor.deleted)
        /\ predictor.delete_calls > 0 => predictor.deployed

====
